---- MODULE Spec2Model ----
(***************************************************************************)
(* State-machine model of the tree-construction engine of neptune:         *)
(* TreeBuilder (src/src/tree_builder.rs) and ColumnTreeBuilder             *)
(* (src/src/column_tree_builder.rs).                                       *)
(*                                                                         *)
(* Rust slices are 0-based; every index below is the 0-based index of the  *)
(* source, and Slice/Put translate to the 1-based sequences of TLA+.       *)
(* Option<T> is a sequence of length 0 (None) or 1 (Some(x)).              *)
(***************************************************************************)
EXTENDS Integers, Sequences, FiniteSets, TLC

\* ------------------------------------------------------------- bounds
\* Largest leaf_count a caller asks for.
MaxLeafCount == 4
\* A caller's buffer is at most this much longer than leaf_count + tree_size(0).
MaxExtra == 1
\* Largest max_batch_size a backend advertises.
MaxBatch == 2
\* Number of elements of the (modelled) scalar field.
FieldSize == 11
\* Number of build sessions (ended by a finalize or a reset) of one builder.
MaxSessions == 2
\* Largest rows_to_discard a caller asks for.
MaxDiscard == 2

\* TreeArity and ColumnArity are type parameters of the builders.
TreeArities == {2, 3}
ColumnArities == {2}
\* The caller's leaves: leaf k of session s is s + k * stride, so a stride
\* of 0 makes every leaf of a session the same.
Strides == {0, 1}
\* A build's backend never fails (0), or its first or its second call does.
BackendFailures == {0, 1, 2}
\* Fr::zero(), which a fresh buffer holds.
Zero == 0

\* ------------------------------------------------------------ helpers
None == <<>>
Some(x) == <<x>>
IsSome(o) == Len(o) = 1
IsNone(o) == Len(o) = 0
Unwrap(o) == o[1]

\* vec[a..b] of the source.
Slice(vec, a, b) == SubSeq(vec, a + 1, b)
\* vec after vec[a..a+len(xs)].copy_from_slice(xs).
Put(vec, a, xs) ==
    [i \in 1..Len(vec) |->
        IF i > a /\ i <= a + Len(xs) THEN xs[i - a] ELSE vec[i]]
Min(a, b) == IF a < b THEN a ELSE b

\* A failed assert!/assert_eq! or an out-of-range slice index.
Panic == -1

\* Result values.
Ok(base, tree) == [tag |-> "Ok", base |-> base, tree |-> tree, msg |-> ""]
OkUnit == [tag |-> "Ok", base |-> <<>>, tree |-> <<>>, msg |-> ""]
Err(msg) == [tag |-> "Err", base |-> <<>>, tree |-> <<>>, msg |-> msg]
\* The call did not return: it panicked, or it loops forever.
Panicked == [tag |-> "Panic", base |-> <<>>, tree |-> <<>>, msg |-> ""]
Hung == [tag |-> "Hang", base |-> <<>>, tree |-> <<>>, msg |-> ""]

\* ------------------------------------------------------- hash primitive
\* Poseidon::new_with_preimage(preimage, constants).hash(): an opaque
\* function of the preimage tuple; the constants depend on the arity, which
\* is the tuple's length.
RECURSIVE Absorb(_, _)
Absorb(acc, xs) ==
    IF xs = <<>> THEN acc
    ELSE Absorb((acc * 3 + Head(xs) + 1) % FieldSize, Tail(xs))

Hash(preimage) == Absorb(Len(preimage) + 1, preimage)

\* ------------------------------------------------ size/height arithmetic
RECURSIVE tree_height_loop(_, _, _)
tree_height_loop(arity, current_row_size, height) ==
    IF current_row_size >= 1
    THEN IF current_row_size # 1
         THEN IF current_row_size % arity # 0
              THEN Panic
              ELSE tree_height_loop(arity, current_row_size \div arity, height + 1)
         ELSE tree_height_loop(arity, current_row_size \div arity, height)
    ELSE height

\* tree_height that counts the leaf row as well.
tree_height_with_leaf_row(self) ==
    LET h == tree_height_loop(self.arity, self.leaf_count, 0)
    IN IF h = Panic THEN Panic ELSE h + 1

tree_height(self) == tree_height_loop(self.arity, self.leaf_count, 0)

RECURSIVE tree_size_loop(_, _, _, _)
tree_size_loop(arity, current_row_size, remaining_rows_to_exclude, size) ==
    IF current_row_size >= 1
    THEN IF current_row_size # 1 /\ current_row_size % arity # 0
         THEN Panic
         ELSE IF remaining_rows_to_exclude > 0
              THEN tree_size_loop(arity, current_row_size \div arity,
                                  remaining_rows_to_exclude - 1, size)
              ELSE tree_size_loop(arity, current_row_size \div arity,
                                  0, size + current_row_size)
    ELSE size

\* tree_size that forgets to exclude the base row.
tree_size_with_base(self, rows_to_discard) ==
    tree_size_loop(self.arity, self.leaf_count, rows_to_discard, 0)

tree_size(self, rows_to_discard) ==
    tree_size_loop(self.arity, self.leaf_count, rows_to_discard + 1, 0)

RECURSIVE tree_size2_loop(_, _, _, _)
tree_size2_loop(arity, current_row_size, remaining_rows_to_exclude, size) ==
    IF current_row_size >= 1
    THEN IF current_row_size # 1 /\ current_row_size % arity # 0
         THEN Panic
         ELSE IF remaining_rows_to_exclude > 0
              THEN tree_size2_loop(arity, current_row_size \div arity,
                                   remaining_rows_to_exclude - 1, size)
              ELSE tree_size2_loop(arity, current_row_size \div arity,
                                   0, size + current_row_size)
    ELSE size

tree_size2(arity, leaf_count, rows_to_discard) ==
    tree_size2_loop(arity, leaf_count, rows_to_discard + 1, 0)

\* ------------------------------------------------------ batched backend
\* as_generic_arrays::<A>(vec): the flat slice grouped into A-tuples; None
\* when the assertion on the length fails.
as_generic_arrays(vec, A) ==
    IF Len(vec) % A # 0 THEN None
    ELSE Some([k \in 1..(Len(vec) \div A) |-> Slice(vec, (k - 1) * A, k * A)])

\* BatchHasher::hash2(preimages, out): one output per tuple, in order.
hash2(preimages) == [k \in 1..Len(preimages) |-> Hash(preimages[k])]

\* BatchHasher::hash_into_slice(target, preimages).
hash_into_slice(preimages) == [k \in 1..Len(preimages) |-> Hash(preimages[k])]

\* ------------------------------------------------------- tree algorithm
\* The state of the loops of build_tree2: the buffer, the chunk loop's
\* counters, the number of backend calls made, and the log of the hash
\* steps made (backend calls, or scalar hashes).
LoopState(data) ==
    [tag |-> "Ok", data |-> data, total_hashed |-> 0, batch_start |-> 0,
     calls |-> 0, log |-> <<>>]

\* Every chunk of a row written at the row's start.
out_start_at_row(new_row_start, total_hashed) == new_row_start

\* A chunk's outputs placed by the number of inputs hashed so far instead of
\* the number of parents.
out_start_by_inputs(new_row_start, total_hashed) == new_row_start + total_hashed * 2

\* data.as_mut_ptr().add(new_row_start + total_hashed): where a chunk's
\* outputs go.
out_start_of(new_row_start, total_hashed) == new_row_start + total_hashed

\* while total_hashed < new_row_size { ... }: one backend call per pass.
\* fail_at = k > 0 makes the backend's k-th call of this build return Err.
RECURSIVE chunk_loop(_, _, _, _, _, _, _)
chunk_loop(s, arity, max_batch_size, row_end, new_row_start, new_row_size, fail_at) ==
    IF s.tag # "Ok" \/ ~(s.total_hashed < new_row_size) THEN s
    ELSE
      LET batch_end == Min(s.batch_start + max_batch_size * arity, row_end)
          batch_size == (batch_end - s.batch_start) \div arity
          out_start == out_start_of(new_row_start, s.total_hashed)
          preimages == as_generic_arrays(Slice(s.data, s.batch_start, batch_end), arity)
          entry == [batch_start |-> s.batch_start, batch_end |-> batch_end,
                    out_start |-> out_start, batch_size |-> batch_size]
      IN IF IsNone(preimages) THEN [s EXCEPT !.tag = "Panic"]
         ELSE IF s.calls + 1 = fail_at
         THEN [s EXCEPT !.tag = "Err", !.calls = @ + 1, !.log = Append(@, entry)]
         ELSE IF batch_size = 0
         \* No progress: the same empty batch is submitted again and again,
         \* until the backend fails, if it ever does.
         THEN IF fail_at > s.calls + 1
              THEN [s EXCEPT !.tag = "Err", !.calls = fail_at, !.log = Append(@, entry)]
              ELSE [s EXCEPT !.tag = "Hang", !.log = Append(@, entry)]
         ELSE chunk_loop(
                [s EXCEPT !.data = Put(@, out_start, hash2(Unwrap(preimages))),
                          !.total_hashed = @ + batch_size,
                          !.batch_start = batch_end,
                          !.calls = @ + 1,
                          !.log = Append(@, entry)],
                arity, max_batch_size, row_end, new_row_start, new_row_size, fail_at)

\* The next row written over the row it is computed from.
new_row_start_in_place(row_start, row_end) == row_start

\* let (new_row_start, new_row_end) = (row_end, row_end + new_row_size):
\* the next row begins where the current one ends.
new_row_start_of(row_start, row_end) == row_end

\* while row_end < intermediate_tree_size { ... }: one pass per row.
RECURSIVE row_loop(_, _, _, _, _, _, _)
row_loop(s, arity, max_batch_size, row_start, row_end, intermediate_tree_size, fail_at) ==
    IF s.tag # "Ok" \/ ~(row_end < intermediate_tree_size) THEN s
    ELSE
      LET row_size == row_end - row_start
          new_row_size == row_size \div arity
          new_row_start == new_row_start_of(row_start, row_end)
          new_row_end == row_end + new_row_size
      IN IF row_size % arity # 0 THEN [s EXCEPT !.tag = "Panic"]
         ELSE row_loop(
                chunk_loop([s EXCEPT !.total_hashed = 0, !.batch_start = row_start],
                           arity, max_batch_size, row_end, new_row_start,
                           new_row_size, fail_at),
                arity, max_batch_size, new_row_start, new_row_end,
                intermediate_tree_size, fail_at)

\* for i in leaf_count..intermediate_tree_size { data[i] = hash(data[start..end]) }
\* Each step is logged as the range it reads and the place it writes.
RECURSIVE scalar_loop(_, _, _, _, _)
scalar_loop(s, i, intermediate_tree_size, start, arity) ==
    IF i >= intermediate_tree_size THEN s
    ELSE scalar_loop(
           [s EXCEPT !.data = Put(@, i, <<Hash(Slice(@, start, start + arity))>>),
                     !.log = Append(@, [batch_start |-> start,
                                        batch_end |-> start + arity,
                                        out_start |-> i, batch_size |-> 1])],
           i + 1, intermediate_tree_size, start + arity, arity)

\* tree_to_keep taken from the front of the buffer instead of its end.
tree_to_keep_front(data, final_tree_size) == Slice(data, 0, final_tree_size)

\* tree_to_keep of build_tree2: data[data.len() - final_tree_size..].
tree_to_keep_of(data, final_tree_size) ==
    Slice(data, Len(data) - final_tree_size, Len(data))

\* base_row of build_tree2: data[..leaf_count].
base_row_of(data, leaf_count) == Slice(data, 0, leaf_count)

\* build_tree2 computing the rest of the tree on the scalar path when the
\* backend fails.
build_tree2_with_fallback(self, rows_to_discard, data, lcount, fail_at) ==
    LET final_tree_size == tree_size(self, rows_to_discard)
        intermediate_tree_size == tree_size(self, 0) + self.leaf_count
        arity == self.arity
    IN IF Len(data) < intermediate_tree_size
       THEN [ret |-> Err("build_tree2 data buffer too short"), data |-> data,
             log |-> <<>>]
       ELSE
         LET b == IF IsSome(self.tree_batcher)
                  THEN row_loop(LoopState(data), arity, Unwrap(self.tree_batcher),
                                0, self.leaf_count, intermediate_tree_size, fail_at)
                  ELSE scalar_loop(LoopState(data), self.leaf_count,
                                   intermediate_tree_size, 0, arity)
             s == IF b.tag = "Err"
                  THEN scalar_loop([b EXCEPT !.tag = "Ok"], self.leaf_count,
                                   intermediate_tree_size, 0, arity)
                  ELSE b
         IN [ret |-> CASE s.tag = "Ok" ->
                            Ok(base_row_of(s.data, self.leaf_count),
                               tree_to_keep_of(s.data, final_tree_size))
                       [] s.tag = "Hang" -> Hung
                       [] OTHER -> Panicked,
             data |-> s.data,
             log |-> s.log]

\* build_tree2(&mut self, rows_to_discard, data, _lcount): the result, the
\* buffer as the call leaves it, and the backend calls it made.
build_tree2(self, rows_to_discard, data, lcount, fail_at) ==
    LET final_tree_size == tree_size(self, rows_to_discard)
        intermediate_tree_size == tree_size(self, 0) + self.leaf_count
        arity == self.arity
    IN IF Len(data) < intermediate_tree_size
       THEN [ret |-> Err("build_tree2 data buffer too short"), data |-> data,
             log |-> <<>>]
       ELSE
         LET s == IF IsSome(self.tree_batcher)
                  THEN row_loop(LoopState(data), arity, Unwrap(self.tree_batcher),
                                0, self.leaf_count, intermediate_tree_size, fail_at)
                  ELSE scalar_loop(LoopState(data), self.leaf_count,
                                   intermediate_tree_size, 0, arity)
         IN [ret |-> CASE s.tag = "Ok" ->
                            Ok(base_row_of(s.data, self.leaf_count),
                               tree_to_keep_of(s.data, final_tree_size))
                       [] s.tag = "Err" -> Err("backend")
                       [] s.tag = "Hang" -> Hung
                       [] OTHER -> Panicked,
             data |-> s.data,
             log |-> s.log]

\* compute_uniform_tree_root(leaf): hash arity copies, tree_height() times.
RECURSIVE uniform_loop(_, _, _)
uniform_loop(element, arity, rounds) ==
    IF rounds <= 0 THEN element
    ELSE uniform_loop(Hash([i \in 1..arity |-> element]), arity, rounds - 1)

compute_uniform_tree_root(self, leaf) ==
    uniform_loop(leaf, self.arity, tree_height(self))

\* --------------------------------------------------------- TreeBuilder
\* The caller owns the buffer; the builder's data field holds the mutable
\* borrow of it (Some(BufRef)) or None.  Every operation takes the buffer's
\* contents and returns the builder, the contents and the result.
BufRef == "buffer"

\* A reset that leaves the cursor where it is.
reset_keeps_cursor(self) == self

\* TreeBuilder::reset.
reset(self) == [self EXCEPT !.fill_index = 0]

\* The capacity check off by one: an append that fills the row is refused.
too_many_at_full(end, leaf_count) == end >= leaf_count

\* The cursor can move one past what the capacity check should allow.
too_many_past_full(end, leaf_count) == end > leaf_count + 1

\* if end > self.leaf_count: the append does not fit.
too_many(end, leaf_count) == end > leaf_count

\* add_leaves copying to the front of the buffer whatever the cursor is.
add_leaves_at_front(self, buffer, leaves) ==
    IF IsNone(self.data)
    THEN [self |-> self, buffer |-> buffer, ret |-> Err("no internal buffer"),
          log |-> <<>>]
    ELSE
      LET batch_leaf_count == Len(leaves)
          end == self.fill_index + batch_leaf_count
      IN IF too_many(end, self.leaf_count)
         THEN [self |-> self, buffer |-> buffer, ret |-> Err("too many leaves"),
               log |-> <<>>]
         ELSE IF end > Len(buffer)
         THEN [self |-> self, buffer |-> buffer, ret |-> Panicked, log |-> <<>>]
         ELSE [self |-> [self EXCEPT !.fill_index = @ + batch_leaf_count],
               buffer |-> Put(buffer, 0, leaves),
               ret |-> OkUnit, log |-> <<>>]

\* add_leaves clearing the buffer behind the leaves it copies.
add_leaves_clearing(self, buffer, leaves) ==
    IF IsNone(self.data)
    THEN [self |-> self, buffer |-> buffer, ret |-> Err("no internal buffer"),
          log |-> <<>>]
    ELSE
      LET start == self.fill_index
          batch_leaf_count == Len(leaves)
          end == start + batch_leaf_count
      IN IF too_many(end, self.leaf_count)
         THEN [self |-> self, buffer |-> buffer, ret |-> Err("too many leaves"),
               log |-> <<>>]
         ELSE IF end > Len(buffer)
         THEN [self |-> self, buffer |-> buffer, ret |-> Panicked, log |-> <<>>]
         ELSE [self |-> [self EXCEPT !.fill_index = @ + batch_leaf_count],
               buffer |-> [i \in 1..Len(buffer) |->
                             IF i <= start THEN buffer[i]
                             ELSE IF i <= end THEN leaves[i - start]
                             ELSE Zero],
               ret |-> OkUnit, log |-> <<>>]

\* TreeBuilder::add_leaves.
add_leaves(self, buffer, leaves) ==
    IF IsNone(self.data)
    THEN [self |-> self, buffer |-> buffer, ret |-> Err("no internal buffer"),
          log |-> <<>>]
    ELSE
      LET start == self.fill_index
          batch_leaf_count == Len(leaves)
          end == start + batch_leaf_count
      IN IF too_many(end, self.leaf_count)
         THEN [self |-> self, buffer |-> buffer, ret |-> Err("too many leaves"),
               log |-> <<>>]
         ELSE IF end > Len(buffer)
         \* data[start..end]: the range end is out of range for the slice.
         THEN [self |-> self, buffer |-> buffer, ret |-> Panicked, log |-> <<>>]
         ELSE [self |-> [self EXCEPT !.fill_index = @ + batch_leaf_count],
               buffer |-> Put(buffer, start, leaves),
               ret |-> OkUnit, log |-> <<>>]

\* add_final_leaves2 keeping every row, whatever rows_to_discard the
\* builder was made with.
add_final_leaves2_keeping_all(self, leaves, leaf_count, fail_at) ==
    LET res == build_tree2(self, 0, leaves, leaf_count, fail_at)
    IN [self |-> self, buffer |-> res.data, ret |-> res.ret, log |-> res.log]

\* TreeBuilder::add_final_leaves2: the buffer is the caller's, per call.
add_final_leaves2(self, leaves, leaf_count, fail_at) ==
    LET res == build_tree2(self, self.rows_to_discard, leaves, leaf_count, fail_at)
    IN [self |-> self, buffer |-> res.data, ret |-> res.ret, log |-> res.log]

\* add_final_leaves resetting the cursor when its append step fails, too.
add_final_leaves_resetting(self, buffer, leaves, fail_at) ==
    LET added == add_leaves(self, buffer, leaves)
    IN IF added.ret.tag = "Err" THEN [added EXCEPT !.self = reset(self)]
       ELSE IF added.ret.tag # "Ok" THEN added
       ELSE
         LET taken == [added.self EXCEPT !.data = None]
             res == build_tree2(taken, taken.rows_to_discard, added.buffer,
                                taken.fill_index, fail_at)
         IN IF res.ret.tag \in {"Panic", "Hang"}
            THEN [self |-> taken, buffer |-> res.data, ret |-> res.ret,
                  log |-> res.log]
            ELSE [self |-> [reset(taken) EXCEPT !.data = Some(BufRef)],
                  buffer |-> res.data, ret |-> res.ret, log |-> res.log]

\* TreeBuilder::add_final_leaves.
add_final_leaves(self, buffer, leaves, fail_at) ==
    LET added == add_leaves(self, buffer, leaves)
    IN IF added.ret.tag # "Ok" THEN added
       ELSE
         LET taken == [added.self EXCEPT !.data = None]
             res == build_tree2(taken, taken.rows_to_discard, added.buffer,
                                taken.fill_index, fail_at)
         IN IF res.ret.tag \in {"Panic", "Hang"}
            THEN [self |-> taken, buffer |-> res.data, ret |-> res.ret,
                  log |-> res.log]
            ELSE [self |-> [reset(taken) EXCEPT !.data = Some(BufRef)],
                  buffer |-> res.data, ret |-> res.ret, log |-> res.log]

\* Batcher::new(t, max_batch_size): the batcher, or the error of a device
\* that is not there.
Batcher_new(t, max_batch_size) ==
    IF t = "NoDevice" THEN [tag |-> "Err", batcher |-> None]
    ELSE [tag |-> "Ok", batcher |-> Some(max_batch_size)]

NoBuilder ==
    [kind |-> "none", arity |-> 0, leaf_count |-> 0, data |-> None,
     fill_index |-> 0, tree_batcher |-> None, rows_to_discard |-> 0]

\* TreeBuilder::new without its assert!(rows_to_discard < tree_height()).
TreeBuilder_new_unchecked(arity, t, leaf_count, max_tree_batch_size, rows_to_discard, data_buf) ==
    LET made == IF IsSome(t) THEN Batcher_new(Unwrap(t), max_tree_batch_size)
                ELSE [tag |-> "Ok", batcher |-> None]
        builder == [kind |-> "tree", arity |-> arity, leaf_count |-> leaf_count,
                    data |-> data_buf, fill_index |-> 0,
                    tree_batcher |-> made.batcher,
                    rows_to_discard |-> rows_to_discard]
    IN IF made.tag = "Err" THEN [ret |-> Err("backend"), builder |-> NoBuilder]
       ELSE IF tree_height(builder) = Panic
               \/ tree_size(builder, rows_to_discard) = Panic
       THEN [ret |-> Panicked, builder |-> NoBuilder]
       ELSE [ret |-> OkUnit, builder |-> builder]

\* TreeBuilder::<TreeArity>::new.
TreeBuilder_new(arity, t, leaf_count, max_tree_batch_size, rows_to_discard, data_buf) ==
    LET made == IF IsSome(t) THEN Batcher_new(Unwrap(t), max_tree_batch_size)
                ELSE [tag |-> "Ok", batcher |-> None]
        builder == [kind |-> "tree", arity |-> arity, leaf_count |-> leaf_count,
                    data |-> data_buf, fill_index |-> 0,
                    tree_batcher |-> made.batcher,
                    rows_to_discard |-> rows_to_discard]
    IN IF made.tag = "Err" THEN [ret |-> Err("backend"), builder |-> NoBuilder]
       ELSE IF tree_height(builder) = Panic
               \/ ~(rows_to_discard < tree_height(builder))
               \/ tree_size(builder, rows_to_discard) = Panic
       THEN [ret |-> Panicked, builder |-> NoBuilder]
       ELSE [ret |-> OkUnit, builder |-> builder]

\* --------------------------------------------------- ColumnTreeBuilder
\* ColumnTreeBuilder::reset.
column_reset(self) == [self EXCEPT !.fill_index = 0]

\* The scalar arm writing each leaf at data[i], not at data[start + i].
scalar_columns_at_front(buffer, start, columns) ==
    LET done == Min(Len(columns), Len(buffer))
    IN [buffer |-> Put(buffer, 0, [i \in 1..done |-> Hash(columns[i])]),
        panicked |-> done < Len(columns)]

\* The scalar arm of add_columns: data[start + i] = hash(column i), one
\* element at a time; the index runs out of the slice at Len(buffer).
scalar_columns(buffer, start, columns) ==
    LET room == IF Len(buffer) > start THEN Len(buffer) - start ELSE 0
        done == Min(Len(columns), room)
    IN [buffer |-> Put(buffer, start,
                       [i \in 1..done |-> Hash(columns[i])]),
        panicked |-> done < Len(columns)]

\* ColumnTreeBuilder::add_columns.  col_fail: the column backend's call
\* returns Err.
add_columns(self, buffer, columns, col_fail) ==
    LET start == self.fill_index
        column_count == Len(columns)
        end == start + column_count
    IN IF too_many(end, self.leaf_count)
       THEN [self |-> self, buffer |-> buffer, ret |-> Err("too many columns"),
             log |-> <<>>]
       ELSE IF IsSome(self.column_batcher)
       THEN IF start + column_count > Len(buffer)
            THEN [self |-> self, buffer |-> buffer, ret |-> Panicked, log |-> <<>>]
            ELSE IF col_fail
            THEN [self |-> self, buffer |-> buffer, ret |-> Err("column backend"),
                  log |-> <<>>]
            ELSE [self |-> [self EXCEPT !.fill_index = @ + column_count],
                  buffer |-> Put(buffer, start, hash_into_slice(columns)),
                  ret |-> OkUnit, log |-> <<>>]
       ELSE LET w == scalar_columns(buffer, start, columns)
            IN IF w.panicked
               THEN [self |-> self, buffer |-> w.buffer, ret |-> Panicked,
                     log |-> <<>>]
               ELSE [self |-> [self EXCEPT !.fill_index = @ + column_count],
                     buffer |-> w.buffer, ret |-> OkUnit, log |-> <<>>]

\* ColumnTreeBuilder::add_final_columns.
add_final_columns(self, buffer, columns, col_fail, fail_at) ==
    LET added == add_columns(self, buffer, columns, col_fail)
    IN IF added.ret.tag # "Ok" THEN added
       ELSE
         LET res == add_final_leaves2(added.self.tree_builder, added.buffer,
                                      added.self.fill_index, fail_at)
         IN IF res.ret.tag # "Ok"
            THEN [self |-> added.self, buffer |-> res.buffer, ret |-> res.ret,
                  log |-> res.log]
            ELSE [self |-> column_reset(added.self), buffer |-> res.buffer,
                  ret |-> res.ret, log |-> res.log]

\* ColumnTreeBuilder::tree_size and the static tree_size2.
column_tree_size(self) == tree_size(self.tree_builder, 0)
column_tree_size2(arity, leaf_count) == tree_size2(arity, leaf_count, 0)

\* ColumnTreeBuilder::compute_uniform_tree_root.
column_compute_uniform_tree_root(self, column) ==
    compute_uniform_tree_root(self.tree_builder, Hash(column))

\* ColumnTreeBuilder::<ColumnArity, TreeArity>::new.
ColumnTreeBuilder_new(column_arity, arity, t, leaf_count, max_column_batch_size,
                      max_tree_batch_size) ==
    LET made == IF IsSome(t) THEN Batcher_new(Unwrap(t), max_column_batch_size)
                ELSE [tag |-> "Ok", batcher |-> None]
        tb == TreeBuilder_new(arity, t, leaf_count, max_tree_batch_size, 0, None)
    IN IF made.tag = "Err" THEN [ret |-> Err("backend"), builder |-> NoBuilder]
       ELSE IF tb.ret.tag # "Ok" THEN [ret |-> tb.ret, builder |-> NoBuilder]
       ELSE [ret |-> OkUnit,
             builder |-> [kind |-> "column", arity |-> arity,
                          column_arity |-> column_arity,
                          leaf_count |-> leaf_count, data |-> Some(BufRef),
                          fill_index |-> 0, column_batcher |-> made.batcher,
                          tree_builder |-> tb.builder]]

\* ------------------------------------------------------- state machine
VARIABLES
    ctor,      \* the constructor's arguments
    builder,   \* the TreeBuilder or ColumnTreeBuilder under test
    buffer,    \* the contents of the caller-owned buffer
    st,        \* "ready", or why no further call is made
    call,      \* the last call made
    ret,       \* what the last call returned
    stride,    \* the stride of the caller's leaf streams
    session,   \* leaves (columns) appended since the cursor was last reset
    buf0,      \* the buffer's contents when that session began
    ended,     \* the last call reset the cursor: the next one begins a session
    sessions   \* sessions ended so far

vars == <<ctor, builder, buffer, st, call, ret, stride, session, buf0, ended,
          sessions>>

BatcherTypes == {None, Some("CPU"), Some("NoDevice")}

\* The k-th leaf (k from 0) of session s, and n leaves from the k-th on.
Leaf(s, d, k) == (s + k * d) % FieldSize
Chunk(s, d, k, n) == [i \in 1..n |-> Leaf(s, d, k + i - 1)]
\* The k-th column of session s, and n columns from the k-th on.
Column(s, d, k, column_arity) ==
    [j \in 1..column_arity |-> (Leaf(s, d, k) + j - 1) % FieldSize]
Columns(s, d, k, n, column_arity) ==
    [i \in 1..n |-> Column(s, d, k + i - 1, column_arity)]

\* leaf_count + tree_size(0), the length a buffer needs; 0 for a leaf_count
\* that is no power of the arity.
NeededLen(arity, leaf_count) ==
    IF tree_size2(arity, leaf_count, 0) = Panic THEN 0
    ELSE leaf_count + tree_size2(arity, leaf_count, 0)

Fresh(len) == [i \in 1..len |-> Zero]

InitWith(c, made, buf, d) ==
    /\ ctor = c
    /\ builder = made.builder
    /\ buffer = buf
    /\ st = IF made.ret.tag = "Ok" THEN "ready" ELSE "aborted"
    /\ call = "new"
    /\ ret = made.ret
    /\ stride = d
    /\ session = <<>>
    /\ buf0 = buf
    /\ ended = FALSE
    /\ sessions = 0

\* TreeBuilder::new(t, leaf_count, max_tree_batch_size, rows_to_discard, data_buf)
InitTree ==
    \E arity \in TreeArities, leaf_count \in 0..MaxLeafCount,
       rows_to_discard \in 0..MaxDiscard, t \in BatcherTypes,
       max_batch_size \in 0..MaxBatch, has_buf \in BOOLEAN, d \in Strides :
      \E len \in 0..(NeededLen(arity, leaf_count) + MaxExtra) :
        LET buf == IF has_buf THEN Fresh(len) ELSE <<>>
            data_buf == IF has_buf THEN Some(BufRef) ELSE None
            c == [kind |-> "tree", arity |-> arity, column_arity |-> 0,
                  leaf_count |-> leaf_count, rows_to_discard |-> rows_to_discard,
                  t |-> t,
                  max_batch_size |-> IF IsSome(t) THEN max_batch_size ELSE 0,
                  has_buf |-> has_buf]
        IN InitWith(c, TreeBuilder_new(arity, t, leaf_count, c.max_batch_size,
                                       rows_to_discard, data_buf), buf, d)

\* ColumnTreeBuilder::new(t, leaf_count, max_column_batch_size,
\*                        max_tree_batch_size, data_buf)
InitColumn ==
    \E arity \in TreeArities, column_arity \in ColumnArities,
       leaf_count \in 0..MaxLeafCount, t \in BatcherTypes,
       max_batch_size \in 0..MaxBatch, d \in Strides :
      \E len \in 0..(NeededLen(arity, leaf_count) + MaxExtra) :
        LET c == [kind |-> "column", arity |-> arity, column_arity |-> column_arity,
                  leaf_count |-> leaf_count, rows_to_discard |-> 0, t |-> t,
                  max_batch_size |-> IF IsSome(t) THEN max_batch_size ELSE 0,
                  has_buf |-> TRUE]
        IN InitWith(c, ColumnTreeBuilder_new(column_arity, arity, t, leaf_count,
                                             c.max_batch_size, c.max_batch_size),
                    Fresh(len), d)

Init == InitTree \/ InitColumn

\* What a call that did not return leaves behind.
StateAfter(r) ==
    CASE r.ret.tag = "Panic" -> "panicked"
      [] r.ret.tag = "Hang" -> "hung"
      [] OTHER -> "ready"

\* The append step of a call failed: nothing was appended.
AppendFailed(r) ==
    \/ r.ret.tag = "Panic"
    \/ /\ r.ret.tag = "Err"
       /\ r.ret.msg \in {"too many leaves", "no internal buffer",
                         "too many columns", "column backend"}

\* The leaves of the session the next call belongs to, the buffer as that
\* session found it, and the number of the session.
CurSession == IF ended THEN <<>> ELSE session
CurBuf0 == IF ended THEN buffer ELSE buf0

\* The state after a call op whose outcome is r; appended are the leaves
\* (columns) the call was given, ends tells that the call reset the cursor.
Return(op, r, appended, ends) ==
    /\ call' = op
    /\ ret' = r.ret
    /\ builder' = r.self
    /\ buffer' = r.buffer
    /\ st' = StateAfter(r)
    /\ sessions' = IF ends THEN sessions + 1 ELSE sessions
    /\ session' = IF AppendFailed(r) THEN CurSession ELSE CurSession \o appended
    /\ buf0' = CurBuf0
    /\ ended' = ends
    /\ UNCHANGED <<ctor, stride>>

Ready == st = "ready" /\ sessions < MaxSessions

\* The backend calls of a build that may fail: none without a backend.
FailPoints(batcher) == IF IsSome(batcher) THEN BackendFailures ELSE {0}

\* The sizes of the slice a caller passes: up to one more than fits.
Sizes == 0..(builder.leaf_count - builder.fill_index + 1)

\* The next n leaves (columns) the caller has for this session.
NextLeaves(n) == Chunk(sessions, stride, Len(CurSession), n)
NextColumns(n) ==
    Columns(sessions, stride, Len(CurSession), n, builder.column_arity)

AddLeaves ==
    /\ Ready /\ builder.kind = "tree"
    /\ \E n \in Sizes :
         \E r \in {add_leaves(builder, buffer, NextLeaves(n))} :
            Return("add_leaves", r, NextLeaves(n), FALSE)

AddFinalLeaves ==
    /\ Ready /\ builder.kind = "tree"
    /\ \E n \in Sizes, fail_at \in FailPoints(builder.tree_batcher) :
         \E r \in {add_final_leaves(builder, buffer, NextLeaves(n), fail_at)} :
            \* self.reset() ran: the append succeeded and build_tree2 returned
            Return("add_final_leaves", r, NextLeaves(n),
                   ~AppendFailed(r) /\ r.ret.tag \in {"Ok", "Err"})

AddColumns ==
    /\ Ready /\ builder.kind = "column"
    /\ \E n \in Sizes, col_fail \in {FALSE} \cup {IsSome(builder.column_batcher)} :
         \E r \in {add_columns(builder, buffer, NextColumns(n), col_fail)} :
            Return("add_columns", r, NextColumns(n), FALSE)

AddFinalColumns ==
    /\ Ready /\ builder.kind = "column"
    /\ \E n \in Sizes, col_fail \in {FALSE} \cup {IsSome(builder.column_batcher)},
          fail_at \in FailPoints(builder.tree_builder.tree_batcher) :
         \E r \in {add_final_columns(builder, buffer, NextColumns(n), col_fail,
                                     fail_at)} :
            \* self.reset() ran: the build returned Ok
            Return("add_final_columns", r, NextColumns(n), r.ret.tag = "Ok")

Next ==
    \/ AddLeaves
    \/ AddFinalLeaves
    \/ AddColumns
    \/ AddFinalColumns

Spec == Init /\ [][Next]_vars

\* ------------------------------------------- the builders with reset
\* TreeBuilder::reset and ColumnTreeBuilder::reset, callable at any time.
Reset ==
    /\ Ready /\ builder.kind = "tree"
    /\ \E r \in {[self |-> reset(builder), buffer |-> buffer, ret |-> OkUnit,
                   log |-> <<>>]} :
         Return("reset", r, <<>>, TRUE)

ColumnReset ==
    /\ Ready /\ builder.kind = "column"
    /\ \E r \in {[self |-> column_reset(builder), buffer |-> buffer,
                   ret |-> OkUnit, log |-> <<>>]} :
         Return("reset", r, <<>>, TRUE)

NextWithReset ==
    \/ Next
    \/ Reset
    \/ ColumnReset

\* The cursor's moves do not depend on the leaves' values: the caller's
\* leaves are taken distinct, which lets stale buffer content show.
InitDistinct == Init /\ stride = 1

SpecWithReset == InitDistinct /\ [][NextWithReset]_vars

\* ------------------------------- the tree builder's two finalize calls
\* The buffer a caller hands to add_final_leaves2, of len elements: a copy
\* of what the builder's own buffer holds, Zero where that one is shorter.
ExternalBuffer(len) ==
    [i \in 1..len |-> IF i <= Len(buffer) THEN buffer[i] ELSE Zero]

\* The lengths of the buffers a caller hands over: one element short of
\* leaf_count + tree_size(0), exactly that, or longer.
ExternalLens ==
    (NeededLen(builder.arity, builder.leaf_count) - 1)
       ..(NeededLen(builder.arity, builder.leaf_count) + MaxExtra)

\* builder.add_final_leaves2(&mut external, leaf_count): the builder's own
\* buffer, which it holds the mutable borrow of, is not the one passed.
\* The backend fails at its first call or not at all: the caller sees the
\* same Err whichever call fails, and keeps the external buffer to itself.
AddFinalLeaves2 ==
    /\ Ready /\ builder.kind = "tree"
    /\ \E len \in ExternalLens,
          fail_at \in FailPoints(builder.tree_batcher) \cap {0, 1} :
         \E r \in {add_final_leaves2(builder, ExternalBuffer(len),
                                      builder.leaf_count, fail_at)} :
            Return("add_final_leaves2", [r EXCEPT !.buffer = buffer], <<>>, FALSE)

NextBothFinalize ==
    \/ AddLeaves
    \/ AddFinalLeaves
    \/ AddFinalLeaves2

InitTreeDistinct == InitTree /\ stride = 1

SpecBothFinalize == InitTreeDistinct /\ [][NextBothFinalize]_vars

\* ------------------------------------------- the arithmetic on its own
\* Largest arity and leaf_count of the builders whose size arithmetic is
\* exercised.
MaxArithArity == 5
MaxArithLeaf == 64

\* A builder of any valid shape, no call made yet.
ArithInit ==
    \E arity \in 2..MaxArithArity, leaf_count \in 0..MaxArithLeaf,
       rows_to_discard \in 0..MaxArithLeaf :
      LET c == [kind |-> "tree", arity |-> arity, column_arity |-> 0,
                leaf_count |-> leaf_count, rows_to_discard |-> rows_to_discard,
                t |-> None, max_batch_size |-> 0, has_buf |-> FALSE]
          made == TreeBuilder_new(arity, None, leaf_count, 0, rows_to_discard, None)
      IN /\ made.ret.tag = "Ok"
         /\ InitWith(c, made, <<>>, 0)

\* The state after a call of an arithmetic function: call holds the
\* function and its arguments, ret.base the value it returned.
Returned(op, leaf_count, rows_to_discard, value) ==
    /\ call' = [op |-> op, leaf_count |-> leaf_count,
                rows_to_discard |-> rows_to_discard]
    /\ ret' = IF value = Panic THEN Panicked ELSE Ok(<<value>>, <<>>)
    /\ st' = IF value = Panic THEN "panicked" ELSE "ready"
    /\ UNCHANGED <<ctor, builder, buffer, stride, session, buf0, ended, sessions>>

\* builder.tree_height()
CallTreeHeight ==
    /\ st = "ready"
    /\ Returned("tree_height", builder.leaf_count, 0, tree_height(builder))

\* builder.tree_size(rows_to_discard)
CallTreeSize ==
    /\ st = "ready"
    /\ \E rows_to_discard \in 0..tree_height(builder) :
         Returned("tree_size", builder.leaf_count, rows_to_discard,
                  tree_size(builder, rows_to_discard))

\* TreeBuilder::<TreeArity>::tree_size2(leaf_count, rows_to_discard)
CallTreeSize2 ==
    /\ st = "ready"
    /\ \E leaf_count \in 0..MaxArithLeaf,
          rows_to_discard \in 0..tree_height(builder) :
         Returned("tree_size2", leaf_count, rows_to_discard,
                  tree_size2(builder.arity, leaf_count, rows_to_discard))

ArithNext ==
    \/ CallTreeHeight
    \/ CallTreeSize
    \/ CallTreeSize2

SpecArith == ArithInit /\ [][ArithNext]_vars

\* --------------------------------------------------------- properties
\* a^k, and 1 + a + ... + a^(n-1).
RECURSIVE Pow(_, _)
Pow(a, k) == IF k <= 0 THEN 1 ELSE a * Pow(a, k - 1)
RECURSIVE GeometricSum(_, _)
GeometricSum(a, n) == IF n <= 0 THEN 0 ELSE Pow(a, n - 1) + GeometricSum(a, n - 1)
\* The h with a^h = n, for n a power of a.
IsPower(a, n) == \E h \in 0..n : Pow(a, h) = n
Log(a, n) == CHOOSE h \in 0..n : Pow(a, h) = n

\* The index at which row k of the tree begins in the buffer, the leaves
\* being row 0: the rows lie one after the other, each 1/arity of the last.
RECURSIVE RowStart(_, _, _)
RowStart(leaf_count, arity, k) ==
    IF k <= 0 THEN 0
    ELSE RowStart(leaf_count, arity, k - 1) + leaf_count \div Pow(arity, k - 1)

\* The Merkle root over a row of leaves: hash arity-tuples row by row.
RECURSIVE MerkleRoot(_, _)
MerkleRoot(row, arity) ==
    IF Len(row) <= 1 THEN row[1]
    ELSE MerkleRoot([k \in 1..(Len(row) \div arity) |->
                        Hash(Slice(row, (k - 1) * arity, k * arity))], arity)

\* The tree stage of the builder under test.
TB == IF builder.kind = "column" THEN builder.tree_builder ELSE builder

\* The last call was a finalize and it returned Ok((base_row, tree_to_keep)).
FinalOk ==
    /\ st = "ready"
    /\ call \in {"add_final_leaves", "add_final_columns"}
    /\ ret.tag = "Ok"

\* The session the last call belonged to was given leaf_count leaves.
FullSession == Len(session) = builder.leaf_count

\* One finalize call given a whole session's leaves (columns), on a builder
\* of b's configuration with its cursor at 0 and the buffer holding buf; no
\* backend failure.
Whole(b, buf, leaves) ==
    IF b.kind = "column"
    THEN add_final_columns([b EXCEPT !.fill_index = 0], buf, leaves, FALSE, 0)
    ELSE add_final_leaves([b EXCEPT !.fill_index = 0], buf, leaves, 0)

\* b with the tree stage's batcher replaced.
WithTreeBatcher(b, batcher) ==
    IF b.kind = "column" THEN [b EXCEPT !.tree_builder.tree_batcher = batcher]
    ELSE [b EXCEPT !.tree_batcher = batcher]

\* C1: a successful finalize returns as tree_to_keep exactly the rows above
\* the first rows_to_discard rows over the leaf row, bottom to top, and its
\* last element is the root of the tree just built -- for every buffer the
\* build accepts, the ones longer than leaf_count + tree_size(0) included.
C1_TreeToKeepIsUpperRows ==
    FinalOk =>
      LET L == TB.leaf_count
          A == TB.arity
      IN /\ ret.tree = Slice(buffer, RowStart(L, A, TB.rows_to_discard + 1),
                             RowStart(L, A, tree_height(TB) + 1))
         /\ ret.tree # <<>>
         /\ ret.tree[Len(ret.tree)] = MerkleRoot(ret.base, A)

\* C2: the tree_to_keep a build with rows_to_discard = r returns has length
\* tree_size(r), and for the same leaves in the same buffer its last element
\* is the same for every r below tree_height().
C2_SameRootForEveryDiscard ==
    (FinalOk /\ builder.kind = "tree") =>
      /\ Len(ret.tree) = tree_size(builder, builder.rows_to_discard)
      /\ \A r \in 0..(tree_height(builder) - 1) :
           LET other == Whole([builder EXCEPT !.rows_to_discard = r], buf0, session)
           IN /\ other.ret.tag = "Ok"
              /\ Len(other.ret.tree) = tree_size(builder, r)
              /\ other.ret.tree[Len(other.ret.tree)] = ret.tree[Len(ret.tree)]

C2_Witness ==
    /\ FinalOk /\ builder.kind = "tree" /\ FullSession
    /\ tree_height(builder) >= 2
    /\ builder.rows_to_discard = 1
    /\ stride = 1

\* C3: the scalar path and the batched path, whatever max_batch_size >= 1
\* the backend has, leave the same buffer and return the same base_row and
\* tree_to_keep for the same leaves.
C3_ScalarEqualsBatched ==
    FinalOk =>
      \A batcher \in {None} \cup {Some(m) : m \in 1..(MaxBatch + 1)} :
        LET other == Whole(WithTreeBatcher(builder, batcher), buf0, session)
        IN /\ other.ret = ret
           /\ other.buffer = buffer

C3_Witness ==
    /\ FinalOk /\ FullSession
    /\ TB.tree_batcher = Some(1)
    /\ TB.leaf_count >= 2 * TB.arity
    /\ stride = 1

\* C4: leaf_count copies of a constant c, appended over any number of calls,
\* build a tree whose root -- the last element of tree_to_keep -- is
\* compute_uniform_tree_root(c).
C4_UniformRoot ==
    (/\ FinalOk /\ builder.kind = "tree" /\ FullSession
     /\ \A i \in 1..Len(session) : session[i] = session[1]) =>
      ret.tree[Len(ret.tree)] = compute_uniform_tree_root(builder, session[1])

\* C5: the base_row a successful add_final_leaves returns has length
\* leaf_count and is the concatenation, in call order, of the leaves its
\* session appended.
C5_BaseRowIsSession ==
    (FinalOk /\ builder.kind = "tree") =>
      /\ Len(ret.base) = builder.leaf_count
      /\ ret.base = session

\* The append call of the builder's kind, given the caller's next n leaves.
AppendNext(n) ==
    IF builder.kind = "column"
    THEN add_columns(builder, buffer, NextColumns(n), FALSE)
    ELSE add_leaves(builder, buffer, NextLeaves(n))

CapacityError ==
    IF builder.kind = "column" THEN Err("too many columns")
    ELSE Err("too many leaves")

FinalNext(n) ==
    IF builder.kind = "column"
    THEN add_final_columns(builder, buffer, NextColumns(n), FALSE, 0)
    ELSE add_final_leaves(builder, buffer, NextLeaves(n), 0)

NextGiven(n) == IF builder.kind = "column" THEN NextColumns(n) ELSE NextLeaves(n)

\* C7: how a session's leaf_count leaves are split over the calls does not
\* show: a finalize that completes a session returns what one finalize call
\* given the whole sequence returns, and where they return they leave the
\* same buffer.
C7_SplitUnobservable ==
    /\ (FinalOk /\ FullSession) =>
         LET one == Whole(builder, buf0, session)
         IN one.ret = ret /\ one.buffer = buffer
    /\ (st = "ready" /\ builder.fill_index > 0) =>
         LET n == builder.leaf_count - builder.fill_index
             split == FinalNext(n)
             one == Whole(builder, buf0, session \o NextGiven(n))
         IN /\ split.ret = one.ret
            /\ split.ret.tag \in {"Ok", "Err"} => split.buffer = one.buffer

\* A prefix went in by an append call; the suffix is still to come, and the
\* buffer is long enough for the build.
C7_Witness ==
    /\ st = "ready"
    /\ call \in {"add_leaves", "add_columns"}
    /\ ret.tag = "Ok"
    /\ builder.fill_index > 0
    /\ builder.fill_index < builder.leaf_count
    /\ stride = 1
    /\ FinalNext(builder.leaf_count - builder.fill_index).ret.tag = "Ok"

\* C8: after a successful finalize the cursor is 0, and a further full
\* session on the same builder succeeds and leaves the cursor at 0 again.
C8_ReusableAfterFinalize ==
    FinalOk =>
      /\ builder.fill_index = 0
      /\ LET again == FinalNext(builder.leaf_count)
         IN /\ again.ret.tag = "Ok"
            /\ again.self.fill_index = 0

\* The second of two full sessions on one builder succeeded: the buffer it
\* began with held the first session's leaves and root.
C8_Witness ==
    /\ FinalOk /\ builder.kind = "tree" /\ FullSession
    /\ sessions = 2
    /\ stride = 1
    /\ base_row_of(buf0, builder.leaf_count) = Chunk(0, 1, 0, builder.leaf_count)
    /\ buf0[builder.leaf_count + tree_size(builder, 0)]
         = MerkleRoot(Chunk(0, 1, 0, builder.leaf_count), builder.arity)

\* C9: what a full session returns depends on its leaves and the builder's
\* configuration only, whatever the buffer held when the session began.
C9_IndependentOfPriorBuffer ==
    (FinalOk /\ FullSession) =>
      \A v \in 0..(FieldSize - 1) :
        Whole(builder, [i \in 1..Len(buffer) |-> v], session).ret = ret

\* C10: for leaf_count = A^h, tree_height() is h, tree_size(0) is
\* (A^h - 1) / (A - 1), tree_size(r) is 1 + A + ... + A^(h-r-1) for r < h,
\* and tree_size2(leaf_count, r) is tree_size(r).
C10_SizeArithmetic ==
    (st = "ready" /\ ret.base # <<>> /\ IsPower(builder.arity, call.leaf_count)) =>
      LET A == builder.arity
          h == Log(A, call.leaf_count)
          r == call.rows_to_discard
          value == ret.base[1]
      IN /\ call.op = "tree_height" => value = h
         /\ (call.op = "tree_size" /\ r = 0) =>
              value * (A - 1) = Pow(A, h) - 1
         /\ (call.op \in {"tree_size", "tree_size2"} /\ r < h) =>
              value = GeometricSum(A, h - r)
         /\ (call.op = "tree_size2" /\ call.leaf_count = builder.leaf_count) =>
              value = tree_size(builder, r)

C10_Witness ==
    /\ st = "ready" /\ ret.base # <<>>
    /\ call.op = "tree_size2"
    /\ call.leaf_count = builder.leaf_count
    /\ builder.arity = 3 /\ builder.leaf_count = 27
    /\ call.rows_to_discard = 1
    /\ ret.base = <<4>>

\* C11: TreeBuilder::new returns a builder only for a leaf_count that is a
\* power of the arity and rows_to_discard < tree_height(); for any other
\* arguments it panics, and never returns an error value; so every builder
\* that exists has rows_to_discard < tree_height().
C11_InvalidShapeAlwaysPanics ==
    /\ (call = "new" /\ ctor.kind = "tree") =>
         LET valid == /\ IsPower(ctor.arity, ctor.leaf_count)
                      /\ ctor.rows_to_discard < Log(ctor.arity, ctor.leaf_count)
         IN /\ ret.tag = "Ok" => valid
            /\ ~valid => ret.tag = "Panic"
    /\ (st = "ready" /\ builder.kind = "tree") =>
         builder.rows_to_discard < tree_height(builder)

\* The constructor's arguments name a tree: leaf_count is a power of the
\* arity and rows_to_discard is below the tree's height.
ValidShape ==
    /\ IsPower(ctor.arity, ctor.leaf_count)
    /\ ctor.rows_to_discard < Log(ctor.arity, ctor.leaf_count)

\* C11 (amended): TreeBuilder::new returns a builder exactly for a valid
\* shape whose backend, if one is asked for, can be created; for an invalid
\* shape it never returns a builder: it panics, unless creating the backend
\* fails first, and then it returns that error; so every builder that
\* exists has rows_to_discard < tree_height().
C11_NoBuilderForInvalidShape ==
    /\ (call = "new" /\ ctor.kind = "tree") =>
         /\ ret.tag = "Ok" <=> (ValidShape /\ ctor.t # Some("NoDevice"))
         /\ ctor.t = Some("NoDevice") => ret = Err("backend")
         /\ (~ValidShape /\ ctor.t # Some("NoDevice")) => ret.tag = "Panic"
    /\ (st = "ready" /\ builder.kind = "tree") =>
         /\ builder.rows_to_discard >= 0
         /\ builder.rows_to_discard < tree_height(builder)
         /\ tree_height(builder) = Log(builder.arity, builder.leaf_count)

\* A power of the arity with rows_to_discard equal to the height: a panic.
C11_Witness ==
    /\ call = "new" /\ ctor.kind = "tree"
    /\ ctor.arity = 2 /\ ctor.leaf_count = 4 /\ ctor.rows_to_discard = 2
    /\ ctor.t = Some("CPU")
    /\ ret.tag = "Panic" /\ st = "aborted"

\* The builder was constructed over a buffer shorter than
\* leaf_count + tree_size(0).
ShortBuffer ==
    /\ st # "aborted"
    /\ Len(buffer) < NeededLen(ctor.arity, ctor.leaf_count)

\* C12: on a buffer shorter than leaf_count + tree_size(0), whatever its
\* length, no append or finalize panics, every finalize returns an error
\* value, and nothing past the leaf row is ever written.
C12_ShortBufferIsReported ==
    ShortBuffer =>
      /\ st # "panicked"
      /\ call \in {"add_final_leaves", "add_final_columns"} => ret.tag = "Err"
      /\ \A i \in 1..Len(buffer) : i > ctor.leaf_count => buffer[i] = Zero

\* One finalize call given a whole session's leaves (columns), as Whole,
\* with the tree backend's k-th call failing.
WholeFailing(b, buf, leaves, k) ==
    IF b.kind = "column"
    THEN add_final_columns([b EXCEPT !.fill_index = 0], buf, leaves, FALSE, k)
    ELSE add_final_leaves([b EXCEPT !.fill_index = 0], buf, leaves, k)

\* The finalize call of the builder's kind, given the caller's next n
\* leaves, with the tree backend's k-th call failing.
FinalNextFailing(n, k) ==
    IF builder.kind = "column"
    THEN add_final_columns(builder, buffer, NextColumns(n), FALSE, k)
    ELSE add_final_leaves(builder, buffer, NextLeaves(n), k)

\* The tree stage has a backend, of max_batch_size >= 1.
Batched == IsSome(TB.tree_batcher) /\ Unwrap(TB.tree_batcher) >= 1

\* The last call was a finalize whose build a failing backend call ended.
FinalBackendErr ==
    /\ st = "ready"
    /\ call \in {"add_final_leaves", "add_final_columns"}
    /\ ret = Err("backend")
    /\ Batched

\* The buffer a build begun on buffer before leaves when its k-th backend
\* call fails: the outputs of the calls before it, and from the failing
\* call's output on, what the buffer held before the build.
StoppedAt(good, k, before) ==
    [i \in 1..Len(before) |->
        IF i <= good.log[k].out_start THEN good.buffer[i] ELSE before[i]]

\* C13: a build whose k-th backend call fails returns the backend's error,
\* has made exactly the calls up to the failing one -- the same calls as
\* the build that does not fail -- and leaves the buffer at and after the
\* failing chunk's output as it was: no later call, no scalar fallback.
\* A failing column backend call returns its error with nothing appended.
C13_BackendFailureStops ==
    /\ (st = "ready" /\ Batched /\ Len(buffer) >= builder.leaf_count) =>
         LET n == builder.leaf_count - builder.fill_index
             good == FinalNext(n)
         IN good.ret.tag = "Ok" =>
              \A k \in BackendFailures \ {0} :
                k <= Len(good.log) =>
                  LET bad == FinalNextFailing(n, k)
                  IN /\ bad.ret = Err("backend")
                     /\ bad.log = SubSeq(good.log, 1, k)
                     /\ bad.buffer = StoppedAt(good, k, buffer)
    /\ (st = "ready" /\ builder.kind = "column"
        /\ IsSome(builder.column_batcher)
        /\ Len(buffer) >= builder.leaf_count) =>
         \A n \in 1..(builder.leaf_count - builder.fill_index) :
           LET r == add_final_columns(builder, buffer, NextColumns(n), TRUE, 0)
           IN r.ret = Err("column backend") /\ r.self = builder /\ r.buffer = buffer

\* The second backend call of a second session's build failed: the first
\* call's outputs are in the buffer, the rest of the tree is the first
\* session's.
C13_Witness ==
    /\ FinalBackendErr /\ FullSession
    /\ builder.kind = "tree"
    /\ sessions = 2 /\ stride = 1
    /\ Whole(builder, buf0, session).ret.tag = "Ok"
    /\ Len(Whole(builder, buf0, session).log) >= 2
    /\ buffer = StoppedAt(Whole(builder, buf0, session), 2,
                          Put(buf0, 0, session))
    /\ buffer # Whole(builder, buf0, session).buffer
    /\ buffer # WholeFailing(builder, buf0, session, 1).buffer

\* C14: every finalize call terminates, with a result or an error, whatever
\* max_batch_size the backend has: no call is left looping.
C14_FinalizeTerminates ==
    /\ st # "hung"
    /\ call \in {"add_final_leaves", "add_final_columns"} => ret.tag # "Hang"

\* C15: after add_final_columns succeeds on a session of leaf_count columns,
\* however they were split over the calls and on either column path,
\* base_row[i] is the hash of the i-th column appended, base_row is the
\* first leaf_count slots of the buffer, and the tree stage's first row of
\* parents is computed from exactly these values.
C15_BaseRowIsHashedColumns ==
    (FinalOk /\ builder.kind = "column" /\ FullSession) =>
      LET L == builder.leaf_count
          A == builder.arity
      IN /\ Len(ret.base) = L
         /\ \A i \in 1..L : ret.base[i] = Hash(session[i])
         /\ base_row_of(buffer, L) = ret.base
         /\ \A k \in 0..((L \div A) - 1) :
              buffer[L + k + 1] = Hash(Slice(ret.base, k * A, (k + 1) * A))

\* A second session of distinct columns, hashed by the column backend.
C15_Witness ==
    /\ FinalOk /\ builder.kind = "column" /\ FullSession
    /\ IsSome(builder.column_batcher)
    /\ builder.leaf_count >= 2 * builder.arity
    /\ sessions = 2 /\ stride = 1
    /\ ret.base[1] # ret.base[2]

\* C16: when all leaf_count columns of a session equal one column, the root
\* add_final_columns returns -- the last element of tree_to_keep -- is
\* ColumnTreeBuilder::compute_uniform_tree_root of that column.
C16_UniformColumnRoot ==
    (/\ FinalOk /\ builder.kind = "column" /\ FullSession
     /\ \A i \in 1..Len(session) : session[i] = session[1]) =>
      ret.tree[Len(ret.tree)] = column_compute_uniform_tree_root(builder, session[1])

\* C17: in every state a builder reaches by appends, finalizes and resets,
\* failed calls included, 0 <= fill_index <= leaf_count.
C17_CursorWithinLeafRow ==
    st # "aborted" =>
      /\ builder.fill_index >= 0
      /\ builder.fill_index <= builder.leaf_count
      /\ TB.fill_index >= 0
      /\ TB.fill_index <= TB.leaf_count

\* A reset in the middle of a second session, after leaves were appended.
C17_Witness ==
    /\ st = "ready" /\ call = "reset"
    /\ sessions = 2
    /\ session # <<>>
    /\ builder.fill_index = 0

\* C18: on the batched path the backend calls of a build partition each
\* row's input in order: every chunk lies in one row, starts a multiple of
\* arity after the row's start, holds batch_size whole arity-tuples with
\* 1 <= batch_size <= max_batch_size, begins where the chunk before it ends,
\* and writes its outputs at the next row's start plus the position of its
\* first parent; every parent of every row is the output of exactly one
\* chunk, written at its own index and computed from its own tuple.
C18_ChunksPartitionRows ==
    (st = "ready" /\ Batched
     /\ Len(buffer) >= NeededLen(TB.arity, TB.leaf_count)) =>
      LET L == TB.leaf_count
          A == TB.arity
          M == Unwrap(TB.tree_batcher)
          H == Log(A, L)
          good == FinalNext(builder.leaf_count - builder.fill_index)
          log == good.log
          Outputs(p) == {ij \in (1..Len(log)) \X (0..(M - 1)) :
                           /\ ij[2] < log[ij[1]].batch_size
                           /\ log[ij[1]].out_start + ij[2] = p}
      IN /\ good.ret.tag = "Ok"
         /\ Len(log) >= 1
         /\ log[1].batch_start = 0
         /\ log[Len(log)].batch_end = RowStart(L, A, H)
         /\ \A i \in 1..(Len(log) - 1) : log[i + 1].batch_start = log[i].batch_end
         /\ \A i \in 1..Len(log) :
              \E k \in 0..(H - 1) :
                LET row_start == RowStart(L, A, k)
                    row_end == RowStart(L, A, k + 1)
                IN /\ row_start <= log[i].batch_start
                   /\ log[i].batch_end <= row_end
                   /\ (log[i].batch_start - row_start) % A = 0
                   /\ log[i].batch_end - log[i].batch_start = log[i].batch_size * A
                   /\ 1 <= log[i].batch_size /\ log[i].batch_size <= M
                   /\ log[i].out_start =
                        row_end + (log[i].batch_start - row_start) \div A
         /\ \A p \in L..(RowStart(L, A, H + 1) - 1) :
              /\ Cardinality(Outputs(p)) = 1
              /\ \A ij \in Outputs(p) :
                   log[ij[1]].batch_start + ij[2] * A = (p - L) * A
              /\ good.buffer[p + 1] =
                   Hash(Slice(good.buffer, (p - L) * A, (p - L) * A + A))

\* A build of three rows finished with a backend of max_batch_size 1: the
\* leaf row went to the backend in two chunks, the row above it in one.
C18_Witness ==
    /\ FinalOk /\ Batched /\ FullSession
    /\ TB.leaf_count = 4 /\ TB.arity = 2 /\ Unwrap(TB.tree_batcher) = 1
    /\ Len(Whole(builder, buf0, session).log) = 3
    /\ Whole(builder, buf0, session).log[2].batch_start = 2
    /\ Whole(builder, buf0, session).log[2].out_start = 5
    /\ Whole(builder, buf0, session).buffer = buffer

\* C19: in a build, on the scalar and on the batched path, every step reads
\* inside one row [row_start, row_end) and writes inside the next,
\* [row_end, row_end + row_size / arity), so every index it writes is
\* greater than every index it reads; every index of
\* [leaf_count, leaf_count + tree_size(0)) is written exactly once; every
\* index read above the leaf row was written by an earlier step; and no
\* index of the leaf row [0, leaf_count) is written.
C19_OutputsAfterInputs ==
    (st = "ready" /\ (IsNone(TB.tree_batcher) \/ Batched)
     /\ Len(buffer) >= NeededLen(TB.arity, TB.leaf_count)) =>
      LET L == TB.leaf_count
          A == TB.arity
          H == Log(A, L)
          good == FinalNext(builder.leaf_count - builder.fill_index)
          log == good.log
          Reads(i) == log[i].batch_start..(log[i].batch_end - 1)
          Writes(i) == log[i].out_start..(log[i].out_start + log[i].batch_size - 1)
      IN /\ good.ret.tag = "Ok"
         /\ \A i \in 1..Len(log) :
              /\ Reads(i) # {} /\ Writes(i) # {}
              /\ \A q \in Reads(i) : \A p \in Writes(i) : q < p
              /\ \E k \in 0..(H - 1) :
                   LET row_start == RowStart(L, A, k)
                       row_end == RowStart(L, A, k + 1)
                   IN /\ Reads(i) \subseteq row_start..(row_end - 1)
                      /\ Writes(i) \subseteq
                           row_end..(row_end + (row_end - row_start) \div A - 1)
              /\ \A q \in Reads(i) :
                   q >= L => \E j \in 1..(i - 1) : q \in Writes(j)
              /\ \A p \in Writes(i) : p >= L
         /\ \A p \in L..(L + tree_size(TB, 0) - 1) :
              Cardinality({i \in 1..Len(log) : p \in Writes(i)}) = 1

\* A second session's build of three rows finished on the scalar path: its
\* last step read the two parents of the leaf row and wrote the root.
C19_Witness ==
    /\ FinalOk /\ IsNone(TB.tree_batcher) /\ FullSession
    /\ sessions = 2
    /\ TB.leaf_count = 4 /\ TB.arity = 2
    /\ Len(Whole(builder, buf0, session).log) = 3
    /\ Whole(builder, buf0, session).log[3].batch_start = 4
    /\ Whole(builder, buf0, session).log[3].batch_end = 6
    /\ Whole(builder, buf0, session).log[3].out_start = 6
    /\ Whole(builder, buf0, session).buffer = buffer

\* C20: a finalize runs the tree algorithm only over a leaf row filled in
\* this session: whenever a finalize returns a tree, the session it ends
\* was given exactly leaf_count leaves (columns).
C20_FinalizeOnlyWhenFull == FinalOk => FullSession

\* The last call was a finalize of the tree builder, of either variant, and
\* it returned after its append step, if it has one, succeeded.
FinalizeReturned ==
    /\ st = "ready"
    /\ call \in {"add_final_leaves", "add_final_leaves2"}
    /\ ~(ret.tag = "Err" /\ ret.msg \in {"too many leaves", "no internal buffer"})

\* C21: after add_final_leaves or add_final_leaves2 returns, the cursor is
\* at 0, whatever add_leaves, add_final_leaves and add_final_leaves2 calls
\* came before.
C21_BothFinalizeResetCursor == FinalizeReturned => builder.fill_index = 0

\* Buffers as long as buf that hold what buf holds in [0, leaf_count):
\* buf itself, and buf with other values above the leaf row.
SameLeafRow(buf, leaf_count) ==
    {buf,
     [i \in 1..Len(buf) |-> IF i <= leaf_count THEN buf[i] ELSE Zero],
     [i \in 1..Len(buf) |-> IF i <= leaf_count THEN buf[i] ELSE (i + 3) % FieldSize]}

\* C22: on a tree builder whose buffer, of exactly leaf_count + tree_size(0)
\* elements, has all leaf_count leaves appended, add_final_leaves with an
\* empty final chunk and add_final_leaves2 given a buffer of that length
\* with the same leaf row return the same (base_row, tree_to_keep) and
\* leave the same buffer contents.
C22_FinalizeVariantsAgree ==
    (/\ st = "ready" /\ builder.kind = "tree" /\ IsSome(builder.data)
     /\ IsNone(builder.tree_batcher) \/ Batched
     /\ builder.fill_index = builder.leaf_count
     /\ Len(buffer) = NeededLen(builder.arity, builder.leaf_count)) =>
      LET retained == add_final_leaves(builder, buffer, <<>>, 0)
      IN /\ retained.ret.tag = "Ok"
         /\ \A external \in SameLeafRow(buffer, builder.leaf_count) :
              LET given == add_final_leaves2(builder, external,
                                             builder.leaf_count, 0)
              IN /\ given.ret = retained.ret
                 /\ given.buffer = retained.buffer

\* add_final_leaves2 returned the tree of four leaves, with a row discarded,
\* that add_final_leaves would return on the builder's own filled buffer.
C22_Witness ==
    /\ st = "ready" /\ call = "add_final_leaves2" /\ ret.tag = "Ok"
    /\ IsSome(builder.data)
    /\ builder.leaf_count = 4 /\ builder.rows_to_discard = 1
    /\ builder.fill_index = builder.leaf_count
    /\ Len(buffer) = NeededLen(builder.arity, builder.leaf_count)
    /\ ret.base = Slice(buffer, 0, builder.leaf_count)
    /\ Len(ret.tree) = 1
    /\ ret = add_final_leaves(builder, buffer, <<>>, 0).ret

\* The last call was a finalize whose append step succeeded and whose
\* tree-build step returned, with the tree or with an error.
FinalPastAppend ==
    /\ st = "ready"
    /\ call \in {"add_final_leaves", "add_final_columns"}
    /\ ~AppendFailed([ret |-> ret])

\* C23: a finalize whose append step succeeded leaves the cursor at 0,
\* whether its build succeeded or failed, on both builders: the builder
\* then takes a fresh session of leaf_count leaves (columns).
C23_CursorZeroAfterBuild == FinalPastAppend => builder.fill_index = 0

\* C24: a ColumnTreeBuilder discards no row: its tree builder has
\* rows_to_discard = 0, and the tree_to_keep a successful add_final_columns
\* returns has tree_size() = tree_size2(leaf_count) = TreeBuilder's
\* tree_size(0) elements, which are the rows above the leaf row, all of
\* them, as the build left them in the buffer.
C24_ColumnTreeKeepsEveryRow ==
    (FinalOk /\ builder.kind = "column") =>
      /\ builder.tree_builder.rows_to_discard = 0
      /\ Len(ret.tree) = column_tree_size(builder)
      /\ column_tree_size(builder) = column_tree_size2(builder.arity, builder.leaf_count)
      /\ column_tree_size(builder) = tree_size(builder.tree_builder, 0)
      /\ ret.tree = Slice(buffer, builder.leaf_count,
                          builder.leaf_count + column_tree_size(builder))

\* TreeBuilder::new was called for a tree of at most one leaf.
NewSingleLeaf == call = "new" /\ ctor.kind = "tree" /\ ctor.leaf_count <= 1

\* Every tree builder that exists has tree_height() >= 1 and
\* leaf_count >= arity.
BuiltTreesHaveParents ==
    (st = "ready" /\ builder.kind \in {"tree", "column"}) =>
      /\ tree_height(TB) >= 1
      /\ TB.leaf_count >= TB.arity

\* C25: every constructed TreeBuilder has tree_height() >= 1 and
\* leaf_count >= arity; for leaf_count 1 and 0 tree_height() is 0, the check
\* rows_to_discard < tree_height() fails for every rows_to_discard, and
\* TreeBuilder::new aborts.
C25_SingleLeafAlwaysAborts ==
    /\ BuiltTreesHaveParents
    /\ NewSingleLeaf =>
         /\ tree_height([arity |-> ctor.arity, leaf_count |-> ctor.leaf_count]) = 0
         /\ ret.tag = "Panic"

\* C25 (amended): every constructed TreeBuilder has tree_height() >= 1 and
\* leaf_count >= arity; for leaf_count 1 and 0 tree_height() is 0 and
\* TreeBuilder::new returns no builder for any rows_to_discard: it aborts
\* at the check rows_to_discard < tree_height(), unless creating the
\* backend fails first, and then it returns that error.
C25_NoSingleLeafBuilder ==
    /\ BuiltTreesHaveParents
    /\ NewSingleLeaf =>
         /\ tree_height([arity |-> ctor.arity, leaf_count |-> ctor.leaf_count]) = 0
         /\ ret.tag # "Ok" /\ st = "aborted" /\ builder = NoBuilder
         /\ ctor.t # Some("NoDevice") => ret.tag = "Panic"
         /\ ctor.t = Some("NoDevice") => ret = Err("backend")

\* TreeBuilder::new for a single leaf and rows_to_discard = 0, no backend
\* asked for: the constructor aborted.
C25_Witness ==
    /\ NewSingleLeaf /\ ctor.leaf_count = 1 /\ ctor.rows_to_discard = 0
    /\ ctor.t = None
    /\ ret.tag = "Panic" /\ st = "aborted"

\* The append step of a finalize given n more leaves (columns) fails with
\* an error value: the builder has no internal buffer, or the session would
\* pass leaf_count.
AppendWillFail(n) ==
    \/ builder.kind = "tree" /\ IsNone(builder.data)
    \/ builder.fill_index + n > builder.leaf_count

\* The error that append step returns.
AppendError ==
    IF builder.kind = "tree" /\ IsNone(builder.data)
    THEN Err("no internal buffer")
    ELSE CapacityError

\* C26: a finalize whose append step fails with the capacity error, or for
\* want of an internal buffer, returns that error and no tree, makes no
\* backend call, and leaves the builder -- the cursor, which is not reset,
\* included -- and the buffer exactly as they were.
C26_FailedAppendChangesNothing ==
    st = "ready" =>
      \A n \in Sizes, k \in FailPoints(TB.tree_batcher) :
        AppendWillFail(n) =>
          LET r == IF builder.kind = "column"
                   THEN add_final_columns(builder, buffer, NextColumns(n), FALSE, k)
                   ELSE add_final_leaves(builder, buffer, NextLeaves(n), k)
          IN /\ r.ret = AppendError
             /\ r.ret.base = <<>> /\ r.ret.tree = <<>>
             /\ r.log = <<>>
             /\ r.self = builder
             /\ r.buffer = buffer

\* A finalize of a tree builder was refused for capacity in the middle of a
\* session: the cursor stands where the session's appends left it and the
\* buffer holds the session's leaves over what it held before.
C26_Witness ==
    /\ st = "ready" /\ call = "add_final_leaves" /\ ret = CapacityError
    /\ builder.kind = "tree"
    /\ session # <<>>
    /\ builder.fill_index = Len(session)
    /\ buffer = Put(buf0, 0, session)

\* What an append of the caller's next n leaves (columns) is to put in the
\* buffer: the leaves themselves, or the hash of each column.
Appended(n) ==
    IF builder.kind = "column"
    THEN [i \in 1..n |-> Hash(NextColumns(n)[i])]
    ELSE NextLeaves(n)

\* C27: a successful add_leaves (add_columns) of n leaves (columns) puts
\* them (their hashes), in order, in the slots [fill_index, fill_index + n)
\* and moves the cursor on by n; the buffer's length and every other slot,
\* leaf_count, rows_to_discard and the rest of the builder are as before;
\* no backend call of the tree stage is made.  An append that fits in the
\* leaf row and in the buffer does succeed.
C27_AppendWritesItsSlotsOnly ==
    st = "ready" =>
      \A n \in Sizes :
        LET r == AppendNext(n)
            start == builder.fill_index
        IN /\ (/\ builder.kind = "tree" => IsSome(builder.data)
               /\ start + n <= builder.leaf_count
               /\ start + n <= Len(buffer)) => r.ret = OkUnit
           /\ r.ret.tag = "Ok" =>
                /\ Len(r.buffer) = Len(buffer)
                /\ \A i \in 1..Len(buffer) :
                     r.buffer[i] = IF i > start /\ i <= start + n
                                   THEN Appended(n)[i - start]
                                   ELSE buffer[i]
                /\ r.self.fill_index = start + n
                /\ r.self = [builder EXCEPT !.fill_index = start + n]
                /\ r.self.leaf_count = builder.leaf_count
                /\ TB.rows_to_discard = (IF builder.kind = "column"
                                         THEN r.self.tree_builder.rows_to_discard
                                         ELSE r.self.rows_to_discard)
                /\ r.log = <<>>

\* In a second session an add_leaves put its leaves behind the ones already
\* there, with the first session's tree still above the leaf row.
C27_Witness ==
    /\ st = "ready" /\ call = "add_leaves" /\ ret = OkUnit
    /\ sessions = 1 /\ stride = 1
    /\ Len(session) >= 2
    /\ builder.fill_index = Len(session)
    /\ builder.fill_index < builder.leaf_count
    /\ Len(buffer) >= NeededLen(builder.arity, builder.leaf_count)
    /\ Slice(buffer, 0, Len(session)) = session
    /\ Slice(buffer, Len(session), Len(buffer)) = Slice(buf0, Len(session), Len(buf0))
    /\ \E i \in (builder.leaf_count + 1)..Len(buffer) : buffer[i] # Zero

====
